---------------------------- MODULE Spec2Model ----------------------------
(***************************************************************************)
(* Lazy loading of arrays from FITS files: dkist/io/fits.py.               *)
(*                                                                         *)
(* One AstropyFITSLoader over one ExternalArrayReference, and the file     *)
(* system it reads.  Python values are records carrying a "type" field;    *)
(* an object that has an identity (a Header, an ndarray) carries the       *)
(* number of the fits.open call that created it as its "id", so that two   *)
(* reads of the same file give equal contents in distinct objects.         *)
(* Strings are sequences of tokens, so that joining and formatting are     *)
(* computed.                                                               *)
(***************************************************************************)
EXTENDS Integers, Sequences, FiniteSets

VARIABLES
    fitsarray,      \* self.fitsarray: the ExternalArrayReference
    basepath,       \* self.basepath
    _array,         \* self._array: the cached array, or None
    _fits_header,   \* self._fits_header: the cached header, or None
    shape,          \* self.shape
    dtype,          \* self.dtype
    disk,           \* the content of the file stored at DataPath
    opens,          \* number of fits.open calls made so far
    handles,        \* number of file handles currently open
    lastOp,         \* the operation that ran last
    ret,            \* the value it returned (None when it raised)
    raised,         \* the exception it raised, or None
    lastArg,        \* the argument it was given (an index expression, a
                    \* reference), or None
    pre,            \* the caches, opens, first_array and absolute_uri when it started
    first_read,     \* history: the call that made the first fits.open, or NotYet
    first_array,    \* history: what the first fits_array access that returned
                    \* gave back, or NotYet
    parked          \* the attributes of the caller's other loader, or NoLoader

vars == <<fitsarray, basepath, _array, _fits_header, shape, dtype, disk,
          opens, handles, lastOp, ret, raised, lastArg, pre, first_read,
          first_array, parked>>

-----------------------------------------------------------------------------
(* Bounds *)

\* fits.open calls in one behaviour
MaxOpens == 3
\* HDUs in a file
MaxHDUs == 2

-----------------------------------------------------------------------------
(* Python values *)

None == [type |-> "NoneType"]

Str(s) == [type |-> "str", s |-> s]

Tuple(v) == [type |-> "tuple", v |-> v]

NoError == [type |-> "NoError"]

Error(name) == [type |-> name]

NotYet == [type |-> "NotYet"]

\* the caller holds no loader
NoLoader == [type |-> "NoLoader"]

\* bool(v) for the values the loader tests: None is false, a Header is a
\* container that is false when it has no cards, a str is false when empty
Truthy(v) ==
    CASE v.type = "NoneType" -> FALSE
      [] v.type = "Header"   -> v.cards > 0
      [] v.type = "str"      -> Len(v.s) > 0
      [] OTHER               -> TRUE

Digits == <<"0", "1", "2", "3", "4", "5", "6", "7", "8", "9">>

\* str(n) of a small int
IntStr(n) == IF n \in 0..9 THEN Digits[n + 1] ELSE "N"

RECURSIVE Joined(_, _)
\* sep.join(str(x) for x in v), as a token sequence
Joined(v, sep) ==
    IF Len(v) = 0 THEN <<>>
    ELSE IF Len(v) = 1 THEN <<IntStr(v[1])>>
    ELSE <<IntStr(v[1]), sep>> \o Joined(Tail(v), sep)

\* str(t) of a tuple of ints: "(2,)", "(2, 3)"
TupleStr(t) ==
    IF Len(t.v) = 1 THEN <<"(", IntStr(t.v[1]), ",)">>
    ELSE <<"(">> \o Joined(t.v, ", ") \o <<")">>

\* repr(a) of an ndarray
ndarray_repr(a) == Str(<<"array([">> \o Joined(a.v, ", ") \o <<"])">>)

\* str(a) of an ndarray
ndarray_str(a) == Str(<<"[">> \o Joined(a.v, " ") \o <<"]">>)

\* os.path.join(a, b) on POSIX, for two strs
os_path_join(a, b) ==
    IF Len(b.s) > 0 /\ Head(b.s) = "/" THEN b
    ELSE IF Len(a.s) = 0 \/ a.s[Len(a.s)] = "/" THEN Str(a.s \o b.s)
    ELSE Str(a.s \o <<"/">> \o b.s)

-----------------------------------------------------------------------------
(* The file system *)

\* the one path at which a file exists: "/d/a"
DataPath == Str(<<"/", "d", "/", "a">>)

NoData == [type |-> "NoData"]

BadData == [type |-> "BadData"]

float64 == Str(<<"float64">>)

float32 == Str(<<"float32">>)

int16 == Str(<<"int16">>)

Pixels(v, dt) == [type |-> "pixels", v |-> v, dtype |-> dt]

\* stored pixel arrays: of the shape and element type the references
\* declare, and of another shape, another element type
StoredArrays == {Pixels(v, dt) : v \in {<<1, 2>>, <<3>>}, dt \in {float64, int16}}

\* An HDU as stored: the BZERO offset its header declares (0 when it has no
\* BZERO card) and its data unit: absent (NAXIS = 0), unreadable, or pixels.
HDUs ==
    {h \in [bzero : {0, 1}, raw : {NoData, BadData} \cup StoredArrays] :
        h.bzero = 1 => h.raw \in StoredArrays}

\* the data-less primary HDU of a multi-extension file
PrimaryHDU == [bzero |-> 0, raw |-> NoData]

NotFITS == [kind |-> "notfits"]

FITSFile(verify, hdus) == [kind |-> "fits", verify |-> verify, hdus |-> hdus]

\* Files: not a FITS file; a FITS file verify('fix') cannot fix; FITS files
\* that conform or can be fixed, of primary HDUs followed by one more HDU
Files ==
    {NotFITS, FITSFile("unfixable", <<PrimaryHDU>>)}
    \cup {FITSFile(v, [i \in 1..n |-> IF i < n THEN PrimaryHDU ELSE h]) :
            v \in {"ok", "fixable"}, n \in 1..MaxHDUs, h \in HDUs}

\* References: a relative and an absolute file name, every HDU index of a file
\* and one past it
ExternalArrays ==
    [fileuri : {Str(<<"a">>), DataPath},
     target  : 0..MaxHDUs,
     dtype   : {float64},
     shape   : {Tuple(<<2>>)}]

\* the attributes of an ExternalArrayReference
Attributes == {"fileuri", "target", "dtype", "shape"}

\* hasattr(obj, name)
hasattr(obj, name) == name \in DOMAIN obj

\* References as a caller may hand them in: objects with any of the
\* attributes
AnyExternalArrays ==
    {[name \in D |-> externalarray[name]] :
        externalarray \in ExternalArrays, D \in SUBSET Attributes}

\* basepath values: absent, empty, with and without a trailing separator
BasePaths == {None, Str(<<>>), Str(<<"/", "d">>), Str(<<"/", "d", "/">>)}

-----------------------------------------------------------------------------
(* astropy.io.fits, as the loader uses it *)

\* The Header of a stored HDU, as the object the open numbered id creates.
\* Every header read from a file has its mandatory cards; a BZERO card is
\* one more.
Header(h, id) ==
    [type |-> "Header", id |-> id, cards |-> 1 + h.bzero, bzero |-> h.bzero,
     fixed |-> FALSE]

\* fits.open(uri, do_not_scale_image_data=...), the open numbered id
fits_open(uri, do_not_scale, id) ==
    IF uri # DataPath THEN [raised |-> Error("FileNotFoundError")]
    ELSE IF disk.kind = "notfits" THEN [raised |-> Error("OSError")]
    ELSE [raised |-> NoError,
          hdul |-> [id |-> id, verify |-> disk.verify, do_not_scale |-> do_not_scale,
                    hdus |-> [i \in 1..Len(disk.hdus) |->
                                [header |-> Header(disk.hdus[i], id),
                                 raw |-> disk.hdus[i].raw]]]]

\* hdul.verify('fix'): raises when an error cannot be fixed, else fixes the
\* headers in memory
hdul_verify(hdul) ==
    IF hdul.verify = "unfixable" THEN [raised |-> Error("VerifyError")]
    ELSE IF hdul.verify = "fixable"
    THEN [raised |-> NoError,
          hdul |-> [hdul EXCEPT !.hdus =
                      [i \in 1..Len(hdul.hdus) |->
                         [hdul.hdus[i] EXCEPT !.header.fixed = TRUE]]]]
    ELSE [raised |-> NoError, hdul |-> hdul]

\* hdul[target] for a non-negative int
hdul_getitem(hdul, target) ==
    IF target + 1 \in 1..Len(hdul.hdus)
    THEN [raised |-> NoError, hdu |-> hdul.hdus[target + 1], hdul |-> hdul]
    ELSE [raised |-> Error("IndexError")]

\* the element type of scaled data: integers become floats
scaled_dtype(dt) == IF dt = int16 THEN float32 ELSE dt

\* What touching hdu.data does to hdu.header: when the data is scaled, the
\* BZERO card is deleted from the header (and BITPIX rewritten) in place
update_header_scale_info(g) ==
    IF ~g.hdul.do_not_scale /\ g.hdu.header.bzero # 0
    THEN [g.hdu.header EXCEPT !.cards = @ - 1, !.bzero = 0]
    ELSE g.hdu.header

\* hdu.data: None for an HDU without data, the pixels scaled by the BZERO the
\* HDU was stored with unless the file was opened with
\* do_not_scale_image_data; header is hdu.header as the access leaves it
hdu_data(g) ==
    IF g.hdu.raw = NoData
    THEN [raised |-> NoError, value |-> None, header |-> g.hdu.header]
    ELSE IF g.hdu.raw = BadData THEN [raised |-> Error("OSError")]
    ELSE [raised |-> NoError,
          value |-> [type |-> "ndarray", id |-> g.hdul.id,
                     dtype |-> IF g.hdul.do_not_scale \/ g.hdu.header.bzero = 0
                               THEN g.hdu.raw.dtype
                               ELSE scaled_dtype(g.hdu.raw.dtype),
                     v |-> [i \in 1..Len(g.hdu.raw.v) |->
                              IF g.hdul.do_not_scale THEN g.hdu.raw.v[i]
                              ELSE g.hdu.raw.v[i] + g.hdu.header.bzero]],
          header |-> update_header_scale_info(g)]

\* an exit that closes only when the block ends normally
hdul_exit_on_success(h, exc) == IF exc = NoError THEN h - 1 ELSE h

\* leaving the with block of an HDUList: close() runs on every exit,
\* whatever exception exc is in flight
hdul_exit(h, exc) == h - 1

-----------------------------------------------------------------------------
(* BaseFITSLoader *)

\* __init__(self, externalarray, basepath): the fields of the new loader
__init__(externalarray, bp) ==
    [fitsarray    |-> externalarray,
     basepath     |-> bp,
     _array       |-> None,
     _fits_header |-> None,
     shape        |-> externalarray.shape,
     dtype        |-> externalarray.dtype]

\* a constructor that checks the reference for all four attributes
AstropyFITSLoader_validating(externalarray, bp) ==
    IF \E name \in Attributes : ~hasattr(externalarray, name)
    THEN [raised |-> Error("AttributeError")]
    ELSE [raised |-> NoError, self |-> __init__(externalarray, bp)]

\* AstropyFITSLoader(externalarray, bp): __init__ stores the reference
\* whole and reads its shape and dtype attributes, which raises
\* AttributeError when one of the two is not there; the caller gets the new
\* loader only when __init__ returns
AstropyFITSLoader(externalarray, bp) ==
    IF ~hasattr(externalarray, "shape") \/ ~hasattr(externalarray, "dtype")
    THEN [raised |-> Error("AttributeError")]
    ELSE [raised |-> NoError, self |-> __init__(externalarray, bp)]

\* What one call did: the exception it raised or NoError, the value it
\* returned, and the caches, open count and open handles it leaves behind.
Call(exc, value, arr, hdr, n, h) ==
    [raised |-> exc, ret |-> value, array |-> arr, header |-> hdr,
     opens |-> n, handles |-> h]

\* a call that returns value and touches nothing
Returns(value) == Call(NoError, value, _array, _fits_header, opens, handles)

\* "<FITS array (unloaded) in {0} shape: {1} dtype: {2}>".format(...)
unloaded_format(uri, shp, dt) ==
    Str(<<"<FITS array (unloaded) in ">> \o uri.s \o <<" shape: ">>
        \o TupleStr(shp) \o <<" dtype: ">> \o dt.s \o <<">">>)

\* absolute_uri with the two parts always concatenated
absolute_uri_concatenating ==
    IF Truthy(basepath)
    THEN Str(basepath.s \o <<"/">> \o fitsarray.fileuri.s)
    ELSE fitsarray.fileuri

\* BaseFITSLoader.absolute_uri
absolute_uri ==
    IF Truthy(basepath)
    THEN os_path_join(basepath, fitsarray.fileuri)
    ELSE fitsarray.fileuri

-----------------------------------------------------------------------------
(* AstropyFITSLoader *)

\* What a read did: the exception or NoError, the value read, the value
\* self._fits_header has when the read ends, and the handles left open.
Read(exc, value, hdr, h) ==
    [raised |-> exc, ret |-> value, header |-> hdr, handles |-> h]

\* the header is never cached during the read of the array
header_not_cached(hdu) == _fits_header

\* the header of the HDU read always replaces the cached one
header_overwritten(hdu) == hdu.header

\* _read_fits_array caching the header while the file is open:
\*     if not self._fits_header: self._fits_header = hdu.header
header_while_open(hdu) ==
    IF ~Truthy(_fits_header) THEN hdu.header ELSE _fits_header

\* AstropyFITSLoader._read_fits_array.  self._fits_header, when it was set
\* from this HDU, is the object hdu.header, so it shows what the access to
\* hdu.data did to that header.
_read_fits_array ==
    LET o == fits_open(absolute_uri, FALSE, opens + 1) IN
    IF o.raised # NoError THEN Read(o.raised, None, _fits_header, handles)
    ELSE
    LET v == hdul_verify(o.hdul) IN
    IF v.raised # NoError
    THEN Read(v.raised, None, _fits_header, hdul_exit(handles + 1, v.raised))
    ELSE
    LET g == hdul_getitem(v.hdul, fitsarray.target) IN
    IF g.raised # NoError
    THEN Read(g.raised, None, _fits_header, hdul_exit(handles + 1, g.raised))
    ELSE
    LET hdr == header_while_open(g.hdu)
        d   == hdu_data(g)
    IN  IF d.raised # NoError
        THEN Read(d.raised, None, hdr, hdul_exit(handles + 1, d.raised))
        ELSE Read(NoError, d.value,
                  IF hdr = g.hdu.header THEN d.header ELSE hdr,
                  hdul_exit(handles + 1, NoError))

\* AstropyFITSLoader._read_fits_header
_read_fits_header ==
    LET o == fits_open(absolute_uri, FALSE, opens + 1) IN
    IF o.raised # NoError THEN Read(o.raised, None, _fits_header, handles)
    ELSE
    LET v == hdul_verify(o.hdul) IN
    IF v.raised # NoError
    THEN Read(v.raised, None, _fits_header, hdul_exit(handles + 1, v.raised))
    ELSE
    LET g == hdul_getitem(v.hdul, fitsarray.target) IN
    IF g.raised # NoError
    THEN Read(g.raised, None, _fits_header, hdul_exit(handles + 1, g.raised))
    ELSE Read(NoError, g.hdu.header, _fits_header, hdul_exit(handles + 1, NoError))

-----------------------------------------------------------------------------
(* BaseFITSLoader: the cached properties and the array protocol *)

\* fits_header reading the file on every access
fits_header_rereading ==
    LET r == _read_fits_header IN
    IF r.raised # NoError
    THEN Call(r.raised, None, _array, r.header, opens + 1, r.handles)
    ELSE Call(NoError, r.ret, _array, r.ret, opens + 1, r.handles)

\* fits_header answering None when the read fails
fits_header_recovering ==
    IF ~Truthy(_fits_header)
    THEN LET r == _read_fits_header IN
         IF r.raised # NoError
         THEN Call(NoError, None, _array, r.header, opens + 1, r.handles)
         ELSE Call(NoError, r.ret, _array, r.ret, opens + 1, r.handles)
    ELSE Returns(_fits_header)

\* BaseFITSLoader.fits_header
fits_header ==
    IF ~Truthy(_fits_header)
    THEN LET r == _read_fits_header IN
         IF r.raised # NoError
         THEN Call(r.raised, None, _array, r.header, opens + 1, r.handles)
         ELSE Call(NoError, r.ret, _array, r.ret, opens + 1, r.handles)
    ELSE Returns(_fits_header)

\* ndarray.shape of a one-dimensional array
ndarray_shape(a) == Tuple(<<Len(a.v)>>)

\* fits_array refusing an array that is not of the declared shape and dtype
fits_array_validating ==
    IF _array = None
    THEN LET r == _read_fits_array IN
         IF r.raised # NoError
         THEN Call(r.raised, None, _array, r.header, opens + 1, r.handles)
         ELSE IF r.ret # None /\ (ndarray_shape(r.ret) # shape \/ r.ret.dtype # dtype)
         THEN Call(Error("ValueError"), None, _array, r.header, opens + 1, r.handles)
         ELSE Call(NoError, r.ret, r.ret, r.header, opens + 1, r.handles)
    ELSE Returns(_array)

\* fits_array dropping the cached header when the read fails
fits_array_forgetting ==
    IF _array = None
    THEN LET r == _read_fits_array IN
         IF r.raised # NoError
         THEN Call(r.raised, None, _array, None, opens + 1, r.handles)
         ELSE Call(NoError, r.ret, r.ret, r.header, opens + 1, r.handles)
    ELSE Returns(_array)

\* BaseFITSLoader.fits_array
fits_array ==
    IF _array = None
    THEN LET r == _read_fits_array IN
         IF r.raised # NoError
         THEN Call(r.raised, None, _array, r.header, opens + 1, r.handles)
         ELSE Call(NoError, r.ret, r.ret, r.header, opens + 1, r.handles)
    ELSE Returns(_array)

\* __array__ reading the file on every call, past the cache
__array___rereading ==
    LET r == _read_fits_array IN
    IF r.raised # NoError
    THEN Call(r.raised, None, _array, r.header, opens + 1, r.handles)
    ELSE Call(NoError, r.ret, _array, r.header, opens + 1, r.handles)

\* BaseFITSLoader.__array__
__array__ == fits_array

\* np.array(loader): numpy calls loader.__array__() and copies what it gets
\* into a new array; it refuses an __array__ that gives no ndarray
np_array ==
    LET c == __array__ IN
    IF c.raised # NoError THEN c
    ELSE IF c.ret = None
    THEN [c EXCEPT !.raised = Error("ValueError")]
    ELSE [c EXCEPT !.ret = [type |-> "ndarray", id |-> 0, dtype |-> c.ret.dtype,
                            v |-> c.ret.v]]

\* Index expressions: an int, or a slice start:stop
Indexes ==
    [type : {"int"}, i : {0, 1}] \cup {[type |-> "slice", lo |-> 0, hi |-> 1],
                                        [type |-> "slice", lo |-> 1, hi |-> 3]}

\* a[slc] of a one-dimensional ndarray or of None
ndarray_getitem(a, slc) ==
    IF a = None THEN [raised |-> Error("TypeError")]
    ELSE IF slc.type = "int"
    THEN IF slc.i + 1 \in 1..Len(a.v)
         THEN [raised |-> NoError, value |-> [type |-> "int", v |-> a.v[slc.i + 1]]]
         ELSE [raised |-> Error("IndexError")]
    ELSE LET hi == IF slc.hi < Len(a.v) THEN slc.hi ELSE Len(a.v) IN
         [raised |-> NoError,
          value |-> [type |-> "ndarray", id |-> 0, base |-> a.id,
                     dtype |-> a.dtype,
                     v |-> SubSeq(a.v, slc.lo + 1, hi)]]

\* __getitem__ reading the part asked for from the file, past the cache
__getitem___rereading(slc) ==
    LET r == _read_fits_array IN
    IF r.raised # NoError
    THEN Call(r.raised, None, _array, r.header, opens + 1, r.handles)
    ELSE LET x == ndarray_getitem(r.ret, slc) IN
         IF x.raised # NoError
         THEN Call(x.raised, None, r.ret, r.header, opens + 1, r.handles)
         ELSE Call(NoError, x.value, r.ret, r.header, opens + 1, r.handles)

\* BaseFITSLoader.__getitem__
__getitem__(slc) ==
    LET c == fits_array IN
    IF c.raised # NoError THEN c
    ELSE LET x == ndarray_getitem(c.ret, slc) IN
         IF x.raised # NoError
         THEN [c EXCEPT !.raised = x.raised, !.ret = None]
         ELSE [c EXCEPT !.ret = x.value]

\* repr that loads the array to show it
__repr___loading ==
    LET c == fits_array IN
    IF c.raised # NoError \/ c.ret = None THEN c
    ELSE [c EXCEPT !.ret = ndarray_repr(c.ret)]

\* repr that shows the resolved path of the file
__repr___resolved ==
    IF _array = None
    THEN Returns(unloaded_format(absolute_uri, fitsarray.shape, fitsarray.dtype))
    ELSE Returns(ndarray_repr(_array))

\* BaseFITSLoader.__repr__
__repr__ ==
    IF _array = None
    THEN Returns(unloaded_format(fitsarray.fileuri, fitsarray.shape, fitsarray.dtype))
    ELSE Returns(ndarray_repr(_array))

\* BaseFITSLoader.__str__
__str__ ==
    IF _array = None
    THEN Returns(unloaded_format(fitsarray.fileuri, fitsarray.shape, fitsarray.dtype))
    ELSE Returns(ndarray_str(_array))

-----------------------------------------------------------------------------
(* The state machine: a caller performing one operation after another *)

Init ==
    \E externalarray \in ExternalArrays, bp \in BasePaths, f \in Files :
        LET self == __init__(externalarray, bp) IN
        /\ fitsarray = self.fitsarray
        /\ basepath = self.basepath
        /\ _array = self._array
        /\ _fits_header = self._fits_header
        /\ shape = self.shape
        /\ dtype = self.dtype
        /\ disk = f
        /\ opens = 0
        /\ handles = 0
        /\ lastOp = "__init__"
        /\ ret = None
        /\ raised = NoError
        /\ lastArg = None
        /\ pre = [array |-> None, header |-> None, opens |-> 0, first_array |-> NotYet,
                  absolute_uri |-> None, parked |-> NoLoader]
        /\ first_read = NotYet
        /\ first_array = NotYet
        /\ parked = NoLoader

\* a call that also stores the array it caches in every other loader, as
\* it would with the cache a class attribute
others_sharing_cache(c) ==
    IF parked = NoLoader THEN parked ELSE [parked EXCEPT !._array = c.array]

\* The loaders other than self after a call that did c: every assignment of
\* the class is to an attribute of self
others(c) == parked

\* the caller runs op with the argument arg, which did c
ApplyArg(op, arg, c) ==
    /\ c.opens <= MaxOpens
    /\ lastArg' = arg
    /\ _array' = c.array
    /\ _fits_header' = c.header
    /\ opens' = c.opens
    /\ handles' = c.handles
    /\ lastOp' = op
    /\ ret' = c.ret
    /\ raised' = c.raised
    /\ pre' = [array |-> _array, header |-> _fits_header, opens |-> opens,
               first_array |-> first_array, absolute_uri |-> absolute_uri,
               parked |-> parked]
    /\ parked' = others(c)
    /\ first_read' = IF opens = 0 /\ c.opens > 0
                     THEN [type |-> "call", op |-> op, raised |-> c.raised,
                           header |-> c.header]
                     ELSE first_read
    /\ first_array' = IF first_array = NotYet /\ op = "fits_array" /\ c.raised = NoError
                      THEN c.ret
                      ELSE first_array
    /\ UNCHANGED <<fitsarray, basepath, shape, dtype, disk>>

\* the caller runs op, which takes no argument and did c
Apply(op, c) == ApplyArg(op, None, c)

\* repr(loader)
Call_repr == Apply("__repr__", __repr__)

\* str(loader)
Call_str == Apply("__str__", __str__)

\* loader.shape
Access_shape == Apply("shape", Returns(shape))

\* loader.dtype
Access_dtype == Apply("dtype", Returns(dtype))

\* loader.absolute_uri
Access_absolute_uri == Apply("absolute_uri", Returns(absolute_uri))

\* loader.fits_header
Access_fits_header == Apply("fits_header", fits_header)

\* loader.fits_array
Access_fits_array == Apply("fits_array", fits_array)

\* loader.__array__()
Call_array == Apply("__array__", __array__)

\* np.array(loader)
Call_np_array == Apply("np.array", np_array)

\* loader[slc]
Call_getitem == \E slc \in Indexes : ApplyArg("__getitem__", slc, __getitem__(slc))

Next ==
    \/ Call_repr
    \/ Call_str
    \/ Access_shape
    \/ Access_dtype
    \/ Access_absolute_uri
    \/ Access_fits_header
    \/ Access_fits_array
    \/ Call_array
    \/ Call_np_array
    \/ Call_getitem

Spec == Init /\ [][Next]_vars

-----------------------------------------------------------------------------
(* The same caller, starting before the loader is constructed *)

InitNoLoader ==
    /\ fitsarray = NoLoader
    /\ basepath = NoLoader
    /\ _array = NoLoader
    /\ _fits_header = NoLoader
    /\ shape = NoLoader
    /\ dtype = NoLoader
    /\ disk \in Files
    /\ opens = 0
    /\ handles = 0
    /\ lastOp = "none"
    /\ ret = None
    /\ raised = NoError
    /\ lastArg = None
    /\ pre = [array |-> None, header |-> None, opens |-> 0, first_array |-> NotYet,
              absolute_uri |-> None, parked |-> NoLoader]
    /\ first_read = NotYet
    /\ first_array = NotYet
    /\ parked = NoLoader

\* loader = AstropyFITSLoader(externalarray, bp), by a caller that holds no
\* loader; when the constructor raises, the caller still holds none
Construct ==
    /\ fitsarray = NoLoader
    /\ \E externalarray \in AnyExternalArrays, bp \in BasePaths :
         LET c == AstropyFITSLoader(externalarray, bp) IN
         /\ lastOp' = "__init__"
         /\ lastArg' = externalarray
         /\ raised' = c.raised
         /\ ret' = None
         /\ IF c.raised = NoError
            THEN /\ fitsarray' = c.self.fitsarray
                 /\ basepath' = c.self.basepath
                 /\ _array' = c.self._array
                 /\ _fits_header' = c.self._fits_header
                 /\ shape' = c.self.shape
                 /\ dtype' = c.self.dtype
            ELSE UNCHANGED <<fitsarray, basepath, _array, _fits_header, shape, dtype>>
         /\ UNCHANGED <<disk, opens, handles, pre, first_read, first_array, parked>>

\* the reference has every attribute
WellFormed(externalarray) ==
    \A name \in Attributes : hasattr(externalarray, name)

\* an operation on the loader the caller holds; what the operations do on a
\* loader whose reference lacks fileuri or target is left out
Use ==
    /\ fitsarray # NoLoader
    /\ WellFormed(fitsarray)
    /\ Next

NextConstruct ==
    \/ Construct
    \/ Use

SpecConstruct == InitNoLoader /\ [][NextConstruct]_vars

-----------------------------------------------------------------------------
(* A caller with two loaders over the same file system, operating on one   *)
(* or the other in any order                                                *)

\* the attributes of the loader the caller is operating on
Self ==
    [fitsarray |-> fitsarray, basepath |-> basepath, _array |-> _array,
     _fits_header |-> _fits_header, shape |-> shape, dtype |-> dtype]

\* references of the two loaders: absolute file names, the first HDU of a
\* file or the last of a file of MaxHDUs
TwoExternalArrays ==
    {externalarray \in ExternalArrays :
        /\ externalarray.fileuri = DataPath
        /\ externalarray.target \in {0, MaxHDUs - 1}}

InitTwo ==
    \E a \in TwoExternalArrays, b \in TwoExternalArrays, f \in Files :
        LET self == __init__(a, None) IN
        /\ fitsarray = self.fitsarray
        /\ basepath = self.basepath
        /\ _array = self._array
        /\ _fits_header = self._fits_header
        /\ shape = self.shape
        /\ dtype = self.dtype
        /\ parked = __init__(b, None)
        /\ disk = f
        /\ opens = 0
        /\ handles = 0
        /\ lastOp = "__init__"
        /\ ret = None
        /\ raised = NoError
        /\ lastArg = None
        /\ pre = [array |-> None, header |-> None, opens |-> 0, first_array |-> NotYet,
                  absolute_uri |-> None, parked |-> __init__(b, None)]
        /\ first_read = NotYet
        /\ first_array = NotYet

\* the caller turns to its other loader
Switch ==
    /\ parked # NoLoader
    /\ fitsarray' = parked.fitsarray
    /\ basepath' = parked.basepath
    /\ _array' = parked._array
    /\ _fits_header' = parked._fits_header
    /\ shape' = parked.shape
    /\ dtype' = parked.dtype
    /\ parked' = Self
    /\ lastOp' = "switch"
    /\ ret' = None
    /\ raised' = NoError
    /\ lastArg' = None
    /\ pre' = [array |-> _array, header |-> _fits_header, opens |-> opens,
               first_array |-> first_array, absolute_uri |-> absolute_uri,
               parked |-> parked]
    /\ UNCHANGED <<disk, opens, handles, first_read, first_array>>

NextTwo ==
    \/ Switch
    \/ Next

SpecTwo == InitTwo /\ [][NextTwo]_vars

-----------------------------------------------------------------------------
(* Properties *)

\* the operations that only look at the loader
Passive == {"__repr__", "__str__", "shape", "dtype", "absolute_uri"}

\* C1: once a fits_array access has returned, every later fits_array access
\* returns the identical object and makes no fits.open call, whatever value
\* the data of the selected HDU is.
C1_ArrayAccessesIdentical ==
    (lastOp = "fits_array" /\ pre.first_array # NotYet)
        => /\ raised = NoError
           /\ ret = pre.first_array
           /\ opens = pre.opens

\* C2: once the header cache is populated (by fits_header, or by a read of
\* fits_array), no operation replaces the cached header, and every
\* fits_header access returns that same object without a fits.open call.
C2_HeaderCachedForever ==
    pre.header # None
        => /\ _fits_header = pre.header
           /\ lastOp = "fits_header"
                => (raised = NoError /\ ret = pre.header /\ opens = pre.opens)

\* C2 witness: fits_header is accessed when the header was cached, and
\* cached by the read of the array
C2_Witness ==
    /\ lastOp = "fits_header"
    /\ pre.header # None
    /\ first_read # NotYet
    /\ first_read.op = "fits_array"

\* C3: right after construction both caches are absent and no file was
\* opened; repr, str, shape, dtype and absolute_uri make no fits.open call
\* and leave both caches as they were, in every state.
C3_PassiveOperationsDoNoIO ==
    /\ lastOp = "__init__"
         => (_array = None /\ _fits_header = None /\ opens = 0 /\ handles = 0)
    /\ lastOp \in Passive
         => /\ opens = pre.opens
            /\ _array = pre.array
            /\ _fits_header = pre.header
            /\ raised = NoError

\* C3 witness: repr of a loader that has no caches and has opened no file
C3_Witness ==
    /\ lastOp = "__repr__"
    /\ _array = None
    /\ _fits_header = None
    /\ opens = 0

\* the first fits.open of the loader was made by op, which returned
FirstReadBy(op) ==
    /\ first_read # NotYet
    /\ first_read.op = op
    /\ first_read.raised = NoError

\* C4: when the first read of a loader is a fits_array access that returns,
\* the header cache holds the header made by that same open, and every later
\* fits_header access returns that object without a fits.open call.
C4_HeaderCachedByArrayRead ==
    FirstReadBy("fits_array")
        => /\ _fits_header # None
           /\ _fits_header.id = 1
           /\ _fits_header = first_read.header
           /\ lastOp = "fits_header"
                => (raised = NoError /\ ret = first_read.header /\ opens = pre.opens)

\* C4 witness: fits_header accessed after the array was read first
C4_Witness ==
    /\ FirstReadBy("fits_array")
    /\ lastOp = "fits_header"
    /\ _array # None
    /\ opens = 1

\* C5: a fits_header access on a loader with both caches absent populates the
\* header cache only; a later fits_array access then makes its own fits.open
\* call and, when it returns, has populated the array cache.
C5_HeaderThenArray ==
    /\ (lastOp = "fits_header" /\ raised = NoError
            /\ pre.header = None /\ pre.array = None)
         => (_fits_header # None /\ _array = None)
    /\ (lastOp = "fits_array" /\ FirstReadBy("fits_header") /\ pre.array = None)
         => /\ opens = pre.opens + 1
            /\ raised = NoError => (_array # None /\ _array = ret)

\* the operations that go through the fits_array property
ArrayOps == {"fits_array", "__array__", "np.array", "__getitem__"}

\* C6: when the read of the array runs on a loader whose header cache is
\* populated, the cached header stays the same object.
C6_ArrayReadKeepsCachedHeader ==
    (lastOp \in ArrayOps /\ opens = pre.opens + 1 /\ pre.header # None)
        => _fits_header = pre.header

\* C6 witness: the array was read and cached while a header from an earlier
\* open was cached
C6_Witness ==
    /\ lastOp = "fits_array"
    /\ opens = pre.opens + 1
    /\ pre.header # None
    /\ _array # None
    /\ _fits_header.id < _array.id

CannotRead == absolute_uri # DataPath \/ disk.kind = "notfits"

\* the file is a sound FITS file and target names none of its HDUs
NoSuchTarget ==
    /\ ~CannotRead
    /\ disk.verify # "unfixable"
    /\ fitsarray.target >= Len(disk.hdus)

\* the error the read attempt of such a file gives
ReadError ==
    IF absolute_uri # DataPath THEN Error("FileNotFoundError")
    ELSE IF disk.kind = "notfits" THEN Error("OSError")
    ELSE Error("IndexError")

\* C8: when the file cannot be read or target names no HDU, a fits_header or
\* fits_array access raises the error of the read after exactly one fits.open
\* call, and both caches stay absent, so that the next access reads again.
C8_ReadErrorsPropagate ==
    (lastOp \in {"fits_header", "fits_array"} /\ (CannotRead \/ NoSuchTarget))
        => /\ raised = ReadError
           /\ ret = None
           /\ opens = pre.opens + 1
           /\ pre.array = None /\ pre.header = None
           /\ _array = None /\ _fits_header = None

\* C8 witness: a second access in a row fails on a target out of range
C8_Witness ==
    /\ lastOp = "fits_array"
    /\ NoSuchTarget
    /\ pre.opens >= 1
    /\ raised = Error("IndexError")

\* C9: absolute_uri is join(basepath, fileuri) when basepath is set and
\* fileuri when basepath is None, also for an absolute fileuri and for an
\* empty basepath, and no operation changes it.
C9_AbsoluteUri ==
    LET expected == IF basepath # None
                    THEN os_path_join(basepath, fitsarray.fileuri)
                    ELSE fitsarray.fileuri
    IN  /\ absolute_uri = expected
        /\ lastOp = "absolute_uri" => ret = expected
        /\ lastOp # "__init__" => pre.absolute_uri = expected

\* C9 witness: absolute_uri read with a basepath and an absolute fileuri,
\* after the array was loaded
C9_Witness ==
    /\ lastOp = "absolute_uri"
    /\ Truthy(basepath)
    /\ fitsarray.fileuri = DataPath
    /\ _array # None

\* C10: repr and str give the unloaded summary of the reference's own
\* fileuri, shape and dtype exactly when the array cache is absent, and the
\* cached array's repr or str otherwise.
C10_DisplayForm ==
    LET unloaded == Str(<<"<FITS array (unloaded) in ">> \o fitsarray.fileuri.s
                        \o <<" shape: ">> \o TupleStr(fitsarray.shape)
                        \o <<" dtype: ">> \o fitsarray.dtype.s \o <<">">>)
    IN  /\ lastOp \in {"__repr__", "__str__"}
             => ((ret = unloaded) <=> (_array = None))
        /\ (lastOp = "__repr__" /\ _array # None) => ret = ndarray_repr(_array)
        /\ (lastOp = "__str__" /\ _array # None) => ret = ndarray_str(_array)

\* C10 witness: repr after fits_header alone, on a loader with a basepath
C10_Witness ==
    /\ lastOp = "__repr__"
    /\ _array = None
    /\ _fits_header # None
    /\ Truthy(basepath)

\* C11 as claimed: the conversion hook __array__ reads the array when the
\* cache is absent, and what it returns has the values of the cached array
\* but is another object than the cached array.
C11_HookDoesNotAlias ==
    /\ (lastOp = "__array__" /\ pre.array = None) => opens = pre.opens + 1
    /\ (lastOp = "__array__" /\ raised = NoError /\ _array # None)
         => /\ ret.type = "ndarray"
            /\ ret.v = _array.v
            /\ ret.id # _array.id

\* C11 as amended: np.array(loader) reads the array when the cache is absent
\* and returns a new array with the values of the cached one; the hook
\* __array__ it goes through returns the cached array object itself.
C11_ConversionCopies ==
    /\ (lastOp \in {"np.array", "__array__"} /\ pre.array = None)
         => opens = pre.opens + 1
    /\ (lastOp = "np.array" /\ raised = NoError)
         => /\ _array # None
            /\ ret.type = "ndarray"
            /\ ret.v = _array.v
            /\ ret.id # _array.id
    /\ (lastOp = "__array__" /\ raised = NoError) => ret = _array

\* C11 witness: np.array(loader) loaded the array and returned its copy
C11_Witness ==
    /\ lastOp = "np.array"
    /\ raised = NoError
    /\ pre.array = None
    /\ _array # None

\* the file at absolute_uri is a FITS file that verify('fix') accepts and
\* target names one of its HDUs
TargetExists ==
    /\ absolute_uri = DataPath
    /\ disk.kind = "fits"
    /\ disk.verify # "unfixable"
    /\ fitsarray.target < Len(disk.hdus)

\* the HDU of the file that target names
TargetHDU == disk.hdus[fitsarray.target + 1]

\* every step of a read of the file succeeds
ReadSucceeds == TargetExists /\ TargetHDU.raw # BadData

-----------------------------------------------------------------------------
\* C13: the array fits_array returns holds the values as stored in the
\* selected HDU, not values transformed by the BZERO offset of its header.
C13_StoredValuesReturned ==
    (lastOp = "fits_array" /\ raised = NoError /\ ret # None)
        => ret.v = TargetHDU.raw.v
-----------------------------------------------------------------------------
\* the header of the selected HDU as the open numbered id reads it, after
\* verify('fix')
TargetHeader(id) ==
    [Header(TargetHDU, id) EXCEPT !.fixed = (disk.verify = "fixable")]

\* the read reaches the data of the selected HDU and fails there
FailsAtData == TargetExists /\ TargetHDU.raw = BadData

\* C17 as claimed: a fits_header or fits_array access that raises leaves
\* both the header cache and the array cache as they were before the access,
\* whichever step of the read failed.
C17_FailedAccessChangesNothing ==
    (lastOp \in {"fits_header", "fits_array"} /\ raised # NoError)
        => /\ _array = pre.array
           /\ _fits_header = pre.header

\* C17 as amended: a fits_header or fits_array access that raises leaves the
\* array cache as it was, and leaves the header cache as it was when the
\* failure is at open, fix-up or HDU selection, or when a header was already
\* cached; a fits_array access that fails at obtaining the data of the
\* selected HDU with no header cached leaves that HDU's header in the header
\* cache.
C17_FailedAccessKeepsArrayCache ==
    (lastOp \in {"fits_header", "fits_array"} /\ raised # NoError)
        => /\ _array = pre.array
           /\ opens = pre.opens + 1
           /\ IF lastOp = "fits_array" /\ pre.header = None /\ FailsAtData
              THEN _fits_header = TargetHeader(opens)
              ELSE _fits_header = pre.header

\* fits_array failed at the data with no header cached, and left one
C17_Witness ==
    /\ lastOp = "fits_array"
    /\ raised # NoError
    /\ pre.header = None
    /\ _fits_header # None
-----------------------------------------------------------------------------
\* C18: on a loader whose every read succeeds, the operations make at most
\* two fits.open calls in total, and at most one when the first fits.open is
\* made by fits_array, __array__, np.array or __getitem__.
C18_AtMostTwoOpens ==
    ReadSucceeds
        => /\ opens <= 2
           /\ (first_read # NotYet /\ first_read.op \in ArrayOps) => opens <= 1
-----------------------------------------------------------------------------
\* what a header holds, apart from which object it is
HeaderContent(h) == [cards |-> h.cards, bzero |-> h.bzero, fixed |-> h.fixed]

\* both a fits_header and a fits_array access have returned, in either order
BothAccessed ==
    /\ first_array # NotYet
    /\ _fits_header # None
    /\ first_read # NotYet
    /\ first_read.op \in {"fits_header", "fits_array"}

\* C19: once fits_header and fits_array have both returned, the cached header
\* holds the content of the header of the HDU selected by target and the
\* cached array holds the data of that HDU, whichever of the two ran first;
\* so the two orders leave equal header content and equal array content.
C19_OrderDoesNotMatter ==
    BothAccessed
        => /\ HeaderContent(_fits_header) = HeaderContent(TargetHeader(0))
           /\ _array = first_array
           /\ _array # None
                => /\ Len(_array.v) = Len(TargetHDU.raw.v)
                   /\ \A i \in 1..Len(_array.v) :
                        _array.v[i] - TargetHDU.raw.v[i] = TargetHDU.bzero
-----------------------------------------------------------------------------
\* C15: in every state shape and dtype are the values the reference
\* declares, whatever operations ran; and a fits_array access whose read
\* succeeds returns without raising also when the array in the file has
\* another shape or another element type than declared.
C15_DeclaredShapeAndDtype ==
    /\ shape = fitsarray.shape
    /\ dtype = fitsarray.dtype
    /\ (lastOp = "fits_array" /\ ReadSucceeds) => (raised = NoError /\ ret = _array)

\* fits_array returned an array of another shape and another element type
\* than the loader declares
C15_Witness ==
    /\ lastOp = "fits_array"
    /\ raised = NoError
    /\ _array # None
    /\ ndarray_shape(_array) # shape
    /\ _array.dtype # dtype
    /\ shape = Tuple(<<2>>)
    /\ dtype = float64
-----------------------------------------------------------------------------
\* the caller holds no loader, initialised in part or in whole
NoLoaderProduced ==
    /\ fitsarray = NoLoader
    /\ basepath = NoLoader
    /\ _array = NoLoader
    /\ _fits_header = NoLoader
    /\ shape = NoLoader
    /\ dtype = NoLoader

\* C14 as claimed: constructing a loader from a reference that lacks any of
\* fileuri, target, dtype or shape raises, and then no loader is produced.
C14_MalformedReferenceRefused ==
    (lastOp = "__init__" /\ ~WellFormed(lastArg))
        => (raised # NoError /\ NoLoaderProduced)

\* C14 as amended: constructing a loader raises (AttributeError) exactly when
\* the reference lacks shape or dtype, and then no loader is produced and no
\* file was opened; a reference that lacks only fileuri or target is
\* accepted, and the loader produced holds that reference, its shape and
\* dtype, and both caches absent.
C14_ShapeAndDtypeRequired ==
    lastOp = "__init__"
        => /\ raised # NoError
                <=> (~hasattr(lastArg, "shape") \/ ~hasattr(lastArg, "dtype"))
           /\ raised # NoError => (raised = Error("AttributeError") /\ NoLoaderProduced)
           /\ raised = NoError
                => /\ fitsarray = lastArg
                   /\ shape = lastArg.shape
                   /\ dtype = lastArg.dtype
                   /\ _array = None
                   /\ _fits_header = None
           /\ opens = 0

\* a loader was constructed from a reference that lacks fileuri and target
C14_Witness ==
    /\ lastOp = "__init__"
    /\ raised = NoError
    /\ ~hasattr(lastArg, "fileuri")
    /\ ~hasattr(lastArg, "target")
    /\ fitsarray = lastArg
-----------------------------------------------------------------------------
\* what loader l caches was read from the HDU its own reference selects, and
\* its shape and dtype are those of its own reference
OwnCaches(l) ==
    LET hdu == disk.hdus[l.fitsarray.target + 1] IN
    /\ l.shape = l.fitsarray.shape
    /\ l.dtype = l.fitsarray.dtype
    /\ l._array # None
         => /\ l.fitsarray.target < Len(disk.hdus)
            /\ Len(l._array.v) = Len(hdu.raw.v)
            /\ \A i \in 1..Len(l._array.v) : l._array.v[i] = hdu.raw.v[i] + hdu.bzero
    /\ l._fits_header # None
         => /\ l.fitsarray.target < Len(disk.hdus)
            /\ l._fits_header.bzero \in {0, hdu.bzero}
            /\ l._fits_header.fixed = (disk.verify = "fixable")

\* C16: with two loaders, every operation on one leaves every attribute of
\* the other (header cache, array cache, shape, dtype, basepath, reference)
\* as it was, and each loader's caches hold only what was read from the HDU
\* its own reference selects.
C16_LoadersIndependent ==
    /\ lastOp \notin {"__init__", "switch"} => parked = pre.parked
    /\ OwnCaches(Self)
    /\ parked # NoLoader => OwnCaches(parked)

\* one loader read and cached its array while the other loader, on the same
\* reference, has a header cached by an earlier open and no array
C16_Witness ==
    /\ lastOp = "fits_array"
    /\ opens = pre.opens + 1
    /\ _array # None
    /\ parked # NoLoader
    /\ parked.fitsarray = fitsarray
    /\ parked._array = None
    /\ parked._fits_header # None
    /\ parked._fits_header.id < _array.id
=============================================================================
